---- MODULE Spec2Model ----
(***************************************************************************)
(* Model of quasi-peer-system/ai_service/main.py: the FastAPI service      *)
(* with the /ws/transcribe WebSocket handler, its ConnectionManager and    *)
(* the POST /transcribe, /translate and /summarize endpoints, all run by   *)
(* one asyncio event loop (uvicorn.run, one process).                      *)
(*                                                                         *)
(* A coroutine runs on the event loop from one await to the next; the      *)
(* variable running names the task that holds the loop's thread.  The      *)
(* handler's statements between two awaits are separate steps of the       *)
(* model, taken while running names the handler, so no other task can      *)
(* step in between; the clients are other processes and step at any time.  *)
(***************************************************************************)
EXTENDS Integers, Sequences, FiniteSets, TLC

\* Bounds of the model: the connections to /ws/transcribe, and the messages
\* and HTTP requests the clients send in all.
MaxConn == 2
MaxMsgs == 1

WS == 1..MaxConn
HTTP == {1}

None == <<"none", 0>>
WsTask(w) == <<"ws", w>>
HttpTask(h) == <<"http", h>>

\* What a client may put in one WebSocket message.  kind "good" is a
\* well-formed message the speech model transcribes to non-empty text;
\* "nokey" lacks the requestId key; "badaudio" has audioData that
\* np.array(..., dtype=np.float32) rejects; "modelfail" is well-formed audio
\* on which the speech model raises; "silent" is well-formed audio for which
\* the speech model returns text that is empty once stripped.
MsgProfiles ==
    { [kind |-> "good", samples |-> 16000],
      [kind |-> "silent", samples |-> 32000],
      [kind |-> "good", samples |-> 32000],
      [kind |-> "nokey", samples |-> 32000],
      [kind |-> "badaudio", samples |-> 0],
      [kind |-> "modelfail", samples |-> 32000] }

\* What a client may post to /transcribe: base64 that decodes to audio the
\* model transcribes, a string that is no base64, or audio the model fails on.
AudioKinds == {"valid", "badb64", "modelfail"}

\* The fields of the pydantic model TranslationRequest: the attributes a
\* request object has.
TranslationRequestFields == {"text", "target_lang"}

\* The module's global names once its start-up code has run.
ModuleGlobals ==
    {"time", "base64", "np", "logging", "os", "sys", "signal", "torch", "uvicorn",
     "logger", "app", "device", "whisper", "nllb", "LANGUAGE_CODES", "manager"}

VARIABLES
    active_connections, \* manager.active_connections (a Python list)
    pc,                 \* position of websocket_transcribe(websocket)
    accepted,           \* websocket.accept() has returned for the websocket
    client,             \* the client's end of the connection
    inbox,              \* messages sent by the client, not yet received
    sentLog,            \* every message the client sent, in order
    outbox,             \* what the handler sent with send_json, in order
    request_id,         \* the handler's local request_id (0: unbound)
    current,            \* the handler's local message (being processed)
    whisperCalls,       \* sample counts the handler passed to whisper
    received,           \* request ids in the order receive_json returned them
    disconnectCalls,    \* executions of manager.disconnect(websocket)
    removals,           \* executions of active_connections.remove(websocket)
    running,            \* the task holding the event loop's thread
    hpc,                \* position of the HTTP handler
    hpath,              \* the route of the HTTP request
    hreq,               \* the request's audio (/transcribe)
    hres,               \* the HTTP outcome
    nMsgs               \* WebSocket messages and HTTP requests sent so far

vars == << active_connections, pc, accepted, client, inbox, sentLog, outbox,
           request_id, current, whisperCalls, received, disconnectCalls,
           removals, running, hpc, hpath, hreq, hres, nMsgs >>

wsVars == << active_connections, pc, accepted, inbox, outbox, request_id,
             current, whisperCalls, received, disconnectCalls, removals >>
clientVars == << client, sentLog, nMsgs >>
httpVars == << hpc, hpath, hreq, hres >>

Range(s) == { s[i] : i \in 1..Len(s) }

NoMsg == [requestId |-> 0, kind |-> "none", samples |-> 0]

----------------------------------------------------------------------------
\* ConnectionManager

\* A connect that registers the websocket twice.
connect_append_twice(conns, w) == Append(Append(conns, w), w)

\* list.append(websocket)
connect_append(conns, w) == Append(conns, w)

\* list.remove(x): removes the first occurrence; ValueError when absent.
list_remove(conns, w) ==
    IF w \in Range(conns)
    THEN LET i == CHOOSE k \in 1..Len(conns) :
                      conns[k] = w /\ \A j \in 1..(k - 1) : conns[j] # w
         IN [raised |-> FALSE,
             list |-> SubSeq(conns, 1, i - 1) \o SubSeq(conns, i + 1, Len(conns))]
    ELSE [raised |-> TRUE, list |-> conns]

\* A disconnect without the membership test.
disconnect_unguarded(conns, w) == list_remove(conns, w)

\* A disconnect that logs and leaves the list as it is.
disconnect_keep(conns, w) == [raised |-> FALSE, list |-> conns]

\* A disconnect that empties the list.
disconnect_clear(conns, w) == [raised |-> FALSE, list |-> << >>]

\* ConnectionManager.disconnect: remove only when present.
disconnect(conns, w) ==
    IF w \in Range(conns)
    THEN list_remove(conns, w)
    ELSE [raised |-> FALSE, list |-> conns]

----------------------------------------------------------------------------
\* websocket.client_state is a member of starlette's WebSocketState, a plain
\* enum.Enum.  The attribute DISCONNECTED looked up on a member is the member
\* WebSocketState.DISCONNECTED itself, whatever the state of the connection.
ClientStateAttrDISCONNECTED(w) == "DISCONNECTED"

\* bool(member) of a plain Enum: every member is true.
Truthy(member) == member \in {"CONNECTING", "CONNECTED", "DISCONNECTED"}

\* "requestId" in locals(): the handler's locals are websocket, message,
\* request_id, audio_data, language, result, response, e, error_response.
LocalsHasRequestId(w) ==
    "requestId" \in {"websocket", "message", "request_id", "audio_data",
                     "language", "result", "response", "e", "error_response"}

----------------------------------------------------------------------------
Init ==
    /\ active_connections = << >>
    /\ pc = [w \in WS |-> "idle"]
    /\ accepted = [w \in WS |-> FALSE]
    /\ client = [w \in WS |-> "none"]
    /\ inbox = [w \in WS |-> << >>]
    /\ sentLog = [w \in WS |-> << >>]
    /\ outbox = [w \in WS |-> << >>]
    /\ request_id = [w \in WS |-> 0]
    /\ current = [w \in WS |-> NoMsg]
    /\ whisperCalls = [w \in WS |-> << >>]
    /\ received = [w \in WS |-> << >>]
    /\ disconnectCalls = [w \in WS |-> 0]
    /\ removals = [w \in WS |-> 0]
    /\ running = None
    /\ hpc = [h \in HTTP |-> "none"]
    /\ hpath = [h \in HTTP |-> "none"]
    /\ hreq = [h \in HTTP |-> "none"]
    /\ hres = [h \in HTTP |-> "none"]
    /\ nMsgs = 0

----------------------------------------------------------------------------
\* The clients.

\* A client opens a connection to /ws/transcribe: the server starts
\* websocket_transcribe(websocket), which awaits manager.connect.  The
\* websockets are numbered in the order in which the clients connect.
ClientOpen(w) ==
    /\ pc[w] = "idle"
    /\ \A v \in 1..(w - 1) : pc[v] # "idle"
    /\ client' = [client EXCEPT ![w] = "open"]
    /\ pc' = [pc EXCEPT ![w] = "connect"]
    /\ UNCHANGED << active_connections, accepted, inbox, sentLog, outbox,
                    request_id, current, whisperCalls, received,
                    disconnectCalls, removals, running, httpVars, nMsgs >>

\* The requestId a client gives its k-th message: any value of its choice,
\* here one that tells the connection and the message.
RequestIdOf(w, k) == 10 * w + k

\* The client sends one JSON message on its accepted connection, while the
\* handler has not returned (the server closes the connection when it has).
ClientSend(w, p) ==
    /\ client[w] = "open"
    /\ accepted[w]
    /\ pc[w] # "done"
    /\ nMsgs < MaxMsgs
    /\ LET m == [requestId |-> RequestIdOf(w, Len(sentLog[w]) + 1),
                 kind |-> p.kind, samples |-> p.samples]
       IN /\ inbox' = [inbox EXCEPT ![w] = Append(@, m)]
          /\ sentLog' = [sentLog EXCEPT ![w] = Append(@, m)]
    /\ nMsgs' = nMsgs + 1
    /\ UNCHANGED << active_connections, pc, accepted, client, outbox,
                    request_id, current, whisperCalls, received,
                    disconnectCalls, removals, running, httpVars >>

\* The client closes the connection, or its transport is lost.
ClientClose(w) ==
    /\ client[w] = "open"
    /\ client' = [client EXCEPT ![w] = "closed"]
    /\ UNCHANGED << wsVars, sentLog, nMsgs, running, httpVars >>

----------------------------------------------------------------------------
\* websocket_transcribe

\* manager.connect: websocket.accept() returns; the websocket is appended.
AcceptOk(w) ==
    /\ running = None
    /\ pc[w] = "connect"
    /\ client[w] = "open"
    /\ accepted' = [accepted EXCEPT ![w] = TRUE]
    /\ active_connections' = connect_append(active_connections, w)
    /\ pc' = [pc EXCEPT ![w] = "loop"]
    /\ running' = WsTask(w)
    /\ UNCHANGED << inbox, outbox, request_id, current, whisperCalls, received,
                    disconnectCalls, removals, clientVars, httpVars >>

\* manager.connect: websocket.accept() raises; connect logs and re-raises,
\* the handler's outer except logs, and the finally block is next.  (A task
\* cancelled at this await reaches the finally block as well.)
AcceptFail(w) ==
    /\ running = None
    /\ pc[w] = "connect"
    /\ pc' = [pc EXCEPT ![w] = "finally"]
    /\ running' = WsTask(w)
    /\ UNCHANGED << active_connections, accepted, inbox, outbox, request_id,
                    current, whisperCalls, received, disconnectCalls, removals,
                    clientVars, httpVars >>

\* The top of the while loop: if websocket.client_state.DISCONNECTED: break
\* Otherwise the handler awaits websocket.receive_json().
LoopTop(w) ==
    /\ running = WsTask(w)
    /\ IF Truthy(ClientStateAttrDISCONNECTED(w))
       THEN /\ pc' = [pc EXCEPT ![w] = "finally"]
            /\ running' = running
       ELSE /\ pc' = [pc EXCEPT ![w] = "receive"]
            /\ running' = None
    /\ UNCHANGED << active_connections, accepted, inbox, outbox, request_id,
                    current, whisperCalls, received, disconnectCalls, removals,
                    clientVars, httpVars >>

\* receive_json() returns the next message, or raises WebSocketDisconnect
\* once the client is gone (break).  Then message["requestId"] (KeyError),
\* np.array(message["audioData"]) (ValueError), and the call of whisper.
ReceiveJson(w) ==
    /\ running = None
    /\ running' = WsTask(w)
    /\ IF inbox[w] # << >>
       THEN LET m == Head(inbox[w])
            IN /\ inbox' = [inbox EXCEPT ![w] = Tail(@)]
               /\ current' = [current EXCEPT ![w] = m]
               /\ received' = [received EXCEPT ![w] = Append(@, m.requestId)]
               /\ request_id' = [request_id EXCEPT ![w] =
                                    IF m.kind = "nokey" THEN @ ELSE m.requestId]
               /\ IF m.kind \in {"nokey", "badaudio"}
                  THEN /\ pc' = [pc EXCEPT ![w] = "except"]
                       /\ UNCHANGED whisperCalls
                  ELSE /\ pc' = [pc EXCEPT ![w] = "whisper"]
                       /\ whisperCalls' = [whisperCalls EXCEPT ![w] =
                                              Append(@, m.samples)]
       ELSE /\ client[w] = "closed"
            /\ pc' = [pc EXCEPT ![w] = "finally"]
            /\ UNCHANGED << inbox, current, received, request_id, whisperCalls >>
    /\ UNCHANGED << active_connections, accepted, outbox, disconnectCalls,
                    removals, clientVars, httpVars >>

\* whisper(...) returns or raises; if not websocket.client_state.DISCONNECTED
\* the response is built and the handler awaits send_json(response).
WhisperReturn(w) ==
    /\ running = WsTask(w)
    /\ IF current[w].kind = "modelfail"
       THEN /\ pc' = [pc EXCEPT ![w] = "except"]
            /\ running' = running
       ELSE IF ~Truthy(ClientStateAttrDISCONNECTED(w))
            THEN /\ pc' = [pc EXCEPT ![w] = "send"]
                 /\ running' = None
            ELSE /\ pc' = [pc EXCEPT ![w] = "loop"]
                 /\ running' = running
    /\ UNCHANGED << active_connections, accepted, inbox, outbox, request_id,
                    current, whisperCalls, received, disconnectCalls, removals,
                    clientVars, httpVars >>

\* send_json(response) completes, or raises on a lost connection: a
\* WebSocketDisconnect (break) or another exception, by starlette's version.
SendJson(w) ==
    /\ running = None
    /\ running' = WsTask(w)
    /\ IF client[w] = "open"
       THEN /\ outbox' = [outbox EXCEPT ![w] = Append(@,
                            [requestId |-> request_id[w],
                             text |-> IF current[w].kind = "silent" THEN "" ELSE "text",
                             confidence |-> 95, error |-> ""])]
            /\ pc' = [pc EXCEPT ![w] = "loop"]
       ELSE /\ \E exc \in {"WebSocketDisconnect", "RuntimeError"} :
                  pc' = [pc EXCEPT ![w] =
                            IF exc = "WebSocketDisconnect" THEN "finally" ELSE "except"]
            /\ UNCHANGED outbox
    /\ UNCHANGED << active_connections, accepted, inbox, request_id, current,
                    whisperCalls, received, disconnectCalls, removals,
                    clientVars, httpVars >>

\* except Exception: log; if not websocket.client_state.DISCONNECTED and
\* "requestId" in locals(): await send_json(error_response).
ExceptException(w) ==
    /\ running = WsTask(w)
    /\ IF ~Truthy(ClientStateAttrDISCONNECTED(w)) /\ LocalsHasRequestId(w)
       THEN /\ pc' = [pc EXCEPT ![w] = "send_error"]
            /\ running' = None
       ELSE /\ pc' = [pc EXCEPT ![w] = "loop"]
            /\ running' = running
    /\ UNCHANGED << active_connections, accepted, inbox, outbox, request_id,
                    current, whisperCalls, received, disconnectCalls, removals,
                    clientVars, httpVars >>

\* send_json(error_response) completes, or raises: the bare except logs and
\* breaks.
SendError(w) ==
    /\ running = None
    /\ running' = WsTask(w)
    /\ IF client[w] = "open"
       THEN /\ outbox' = [outbox EXCEPT ![w] = Append(@,
                            [requestId |-> request_id[w], text |-> "none",
                             confidence |-> -1, error |-> "str(e)"])]
            /\ pc' = [pc EXCEPT ![w] = "loop"]
       ELSE /\ pc' = [pc EXCEPT ![w] = "finally"]
            /\ UNCHANGED outbox
    /\ UNCHANGED << active_connections, accepted, inbox, request_id, current,
                    whisperCalls, received, disconnectCalls, removals,
                    clientVars, httpVars >>

\* One step of the while loop, from the handler's position.
LoopIteration(w) ==
    CASE pc[w] = "loop" -> LoopTop(w)
      [] pc[w] = "receive" -> ReceiveJson(w)
      [] pc[w] = "whisper" -> WhisperReturn(w)
      [] pc[w] = "send" -> SendJson(w)
      [] pc[w] = "except" -> ExceptException(w)
      [] pc[w] = "send_error" -> SendError(w)
      [] OTHER -> FALSE

\* A handler whose cleanup is skipped: it returns without manager.disconnect.
FinallyWithoutDisconnect(w) ==
    /\ running = WsTask(w)
    /\ pc[w] = "finally"
    /\ pc' = [pc EXCEPT ![w] = "done"]
    /\ running' = None
    /\ UNCHANGED << active_connections, accepted, inbox, outbox, request_id,
                    current, whisperCalls, received, disconnectCalls, removals,
                    clientVars, httpVars >>

\* finally: manager.disconnect(websocket); the handler returns.
Finally(w) ==
    /\ running = WsTask(w)
    /\ pc[w] = "finally"
    /\ active_connections' = disconnect(active_connections, w).list
    /\ disconnectCalls' = [disconnectCalls EXCEPT ![w] = @ + 1]
    /\ removals' = [removals EXCEPT ![w] =
                       IF w \in Range(active_connections) THEN @ + 1 ELSE @]
    /\ pc' = [pc EXCEPT ![w] = "done"]
    /\ running' = None
    /\ UNCHANGED << accepted, inbox, outbox, request_id, current, whisperCalls,
                    received, clientVars, httpVars >>

----------------------------------------------------------------------------
\* POST /transcribe

\* A client posts a TranscriptionRequest; the server starts transcribe(request).
HttpPost(h, a) ==
    /\ hpc[h] = "none"
    /\ nMsgs < MaxMsgs
    /\ nMsgs' = nMsgs + 1
    /\ hpc' = [hpc EXCEPT ![h] = "pending"]
    /\ hpath' = [hpath EXCEPT ![h] = "/transcribe"]
    /\ hreq' = [hreq EXCEPT ![h] = a]
    /\ UNCHANGED << wsVars, client, sentLog, running, hres >>

\* base64.b64decode and np.frombuffer, then the call of whisper(...), made
\* on the event loop's thread; a decoding error becomes HTTP 500.
TranscribeStart(h) ==
    /\ running = None
    /\ hpc[h] = "pending"
    /\ hpath[h] = "/transcribe"
    /\ IF hreq[h] = "badb64"
       THEN /\ hpc' = [hpc EXCEPT ![h] = "done"]
            /\ hres' = [hres EXCEPT ![h] = "500"]
            /\ running' = None
       ELSE /\ hpc' = [hpc EXCEPT ![h] = "whisper"]
            /\ hres' = hres
            /\ running' = HttpTask(h)
    /\ UNCHANGED << wsVars, clientVars, hpath, hreq >>

\* whisper(...) returns and the result is the response, or it raises and
\* the except clause raises HTTPException(500).
TranscribeFinish(h) ==
    /\ running = HttpTask(h)
    /\ hpc[h] = "whisper"
    /\ hpc' = [hpc EXCEPT ![h] = "done"]
    /\ hres' = [hres EXCEPT ![h] = IF hreq[h] = "modelfail" THEN "500" ELSE "200"]
    /\ running' = None
    /\ UNCHANGED << wsVars, clientVars, hpath, hreq >>

----------------------------------------------------------------------------
\* POST /translate and POST /summarize

\* A client posts a valid TranslationRequest (text, target_lang) or a valid
\* SummarizationRequest (text); the server starts the route's handler.
HttpPostText(h, path) ==
    /\ hpc[h] = "none"
    /\ nMsgs < MaxMsgs
    /\ nMsgs' = nMsgs + 1
    /\ hpc' = [hpc EXCEPT ![h] = "pending"]
    /\ hpath' = [hpath EXCEPT ![h] = path]
    /\ UNCHANGED << wsVars, client, sentLog, running, hreq, hres >>

\* translate(request): request.src_lang is read first (AttributeError when
\* the request has no such attribute), then nllb(...) is called on the event
\* loop's thread and its output returned; any exception becomes HTTP 500.
Translate(h) ==
    /\ hpath[h] = "/translate"
    /\ CASE hpc[h] = "pending" ->
              /\ running = None
              /\ IF "src_lang" \notin TranslationRequestFields
                 THEN /\ hpc' = [hpc EXCEPT ![h] = "done"]
                      /\ hres' = [hres EXCEPT ![h] = "500"]
                      /\ running' = None
                 ELSE /\ hpc' = [hpc EXCEPT ![h] = "model"]
                      /\ hres' = hres
                      /\ running' = HttpTask(h)
         [] hpc[h] = "model" ->
              /\ running = HttpTask(h)
              /\ hpc' = [hpc EXCEPT ![h] = "done"]
              /\ hres' = [hres EXCEPT ![h] = "200"]
              /\ running' = None
         [] OTHER -> FALSE
    /\ UNCHANGED << wsVars, clientVars, hpath, hreq >>

\* summarize(request): the global name distilbart is looked up (NameError
\* when the module has no such name), the model is called on the event
\* loop's thread and its output returned; any exception becomes HTTP 500.
Summarize(h) ==
    /\ hpath[h] = "/summarize"
    /\ CASE hpc[h] = "pending" ->
              /\ running = None
              /\ IF "distilbart" \notin ModuleGlobals
                 THEN /\ hpc' = [hpc EXCEPT ![h] = "done"]
                      /\ hres' = [hres EXCEPT ![h] = "500"]
                      /\ running' = None
                 ELSE /\ hpc' = [hpc EXCEPT ![h] = "model"]
                      /\ hres' = hres
                      /\ running' = HttpTask(h)
         [] hpc[h] = "model" ->
              /\ running = HttpTask(h)
              /\ hpc' = [hpc EXCEPT ![h] = "done"]
              /\ hres' = [hres EXCEPT ![h] = "200"]
              /\ running' = None
         [] OTHER -> FALSE
    /\ UNCHANGED << wsVars, clientVars, hpath, hreq >>

----------------------------------------------------------------------------
Next ==
    \/ \E w \in WS : ClientOpen(w)
    \/ \E w \in WS : \E p \in MsgProfiles : ClientSend(w, p)
    \/ \E w \in WS : ClientClose(w)
    \/ \E w \in WS : AcceptOk(w)
    \/ \E w \in WS : AcceptFail(w)
    \/ \E w \in WS : LoopIteration(w)
    \/ \E w \in WS : Finally(w)
    \/ \E h \in HTTP : \E a \in AudioKinds : HttpPost(h, a)
    \/ \E h \in HTTP : TranscribeStart(h)
    \/ \E h \in HTTP : TranscribeFinish(h)
    \/ \E h \in HTTP : \E path \in {"/translate", "/summarize"} : HttpPostText(h, path)
    \/ \E h \in HTTP : Translate(h)
    \/ \E h \in HTTP : Summarize(h)

Spec == Init /\ [][Next]_vars

\* A step of the server: the event loop resumes a task, or the running task
\* goes on.
ServerNext ==
    \/ \E w \in WS : AcceptOk(w) \/ AcceptFail(w) \/ LoopIteration(w) \/ Finally(w)
    \/ \E h \in HTTP : TranscribeStart(h) \/ TranscribeFinish(h)
    \/ \E h \in HTTP : Translate(h) \/ Summarize(h)

\* The event loop does not stop while a task can run: a handler whose await
\* has completed is resumed, and a call of the model returns.
Fairness == WF_vars(ServerNext)

FairSpec == Spec /\ Fairness

----------------------------------------------------------------------------
\* Claims

Count(s, x) == Cardinality({ i \in 1..Len(s) : s[i] = x })
InLoopPositions == {"loop", "receive", "whisper", "send", "except", "send_error"}
BadKinds == {"nokey", "badaudio", "modelfail"}

\* The handler never gets past the top of its loop: it receives no message,
\* calls the model for no session and sends nothing.
LoopBodyNeverEntered ==
    \A w \in WS :
        /\ pc[w] \in {"idle", "connect", "loop", "finally", "done"}
        /\ received[w] = << >> /\ whisperCalls[w] = << >> /\ outbox[w] = << >>

\* C1 (as claimed): a well-formed message sent by a client that stays
\* connected, on which the model returns text, is answered on the same
\* connection with its requestId and the text: once the handler has
\* returned, the response is in what it sent.
C1_GoodMessageAnswered ==
    \A w \in WS :
        (pc[w] = "done" /\ client[w] = "open") =>
            \A i \in 1..Len(sentLog[w]) :
                sentLog[w][i].kind = "good" =>
                    \E k \in 1..Len(outbox[w]) :
                        /\ outbox[w][k].requestId = sentLog[w][i].requestId
                        /\ outbox[w][k].text = "text"

\* C2: whenever a run of websocket_transcribe has ended, manager.disconnect
\* has been executed for its websocket and the websocket is not in
\* manager.active_connections.
C2_CleanupOnExit ==
    \A w \in WS :
        pc[w] = "done" =>
            /\ disconnectCalls[w] >= 1
            /\ w \notin Range(active_connections)

\* C2 witnesses: a handler that ended by leaving its loop after a successful
\* accept, and another one that ended because manager.connect failed.
C2_Witness ==
    \E w, v \in WS :
        /\ pc[w] = "done" /\ accepted[w] /\ removals[w] = 1
        /\ pc[v] = "done" /\ ~accepted[v] /\ disconnectCalls[v] = 1

\* C3 (as claimed): a bad chunk never ends the session: while the client
\* that sent a message whose processing raises is still connected, the
\* handler is in its receive loop and the websocket is registered.
C3_BadChunkKeepsSession ==
    \A w \in WS :
        (client[w] = "open" /\ \E i \in 1..Len(sentLog[w]) : sentLog[w][i].kind \in BadKinds)
            => (pc[w] \in InLoopPositions /\ w \in Range(active_connections))

\* C4 (as claimed): a message on which the speech model raises, sent by a
\* client that stays connected, gets exactly one result on that connection,
\* with empty text, confidence 0, the message's requestId and an error.
C4_InferenceFailureReported ==
    \A w \in WS :
        (pc[w] = "done" /\ client[w] = "open") =>
            \A i \in 1..Len(sentLog[w]) :
                sentLog[w][i].kind = "modelfail" =>
                    Cardinality({ k \in 1..Len(outbox[w]) :
                        /\ outbox[w][k].requestId = sentLog[w][i].requestId
                        /\ outbox[w][k].text = ""
                        /\ outbox[w][k].confidence = 0
                        /\ outbox[w][k].error # "" }) = 1

\* C5 (as claimed): the speech model is invoked for a session only with at
\* least 32000 accumulated samples, and a session on which a decodable chunk
\* of at least 32000 samples has arrived has had the model invoked with
\* those samples.
C5_DrainAtThreshold ==
    \A w \in WS :
        /\ \A k \in 1..Len(whisperCalls[w]) : whisperCalls[w][k] >= 32000
        /\ (pc[w] = "done" /\ client[w] = "open") =>
               \A i \in 1..Len(sentLog[w]) :
                   (sentLog[w][i].kind = "good" /\ sentLog[w][i].samples >= 32000)
                       => \E k \in 1..Len(whisperCalls[w]) :
                              whisperCalls[w][k] = sentLog[w][i].samples

C7_IdempotentEviction ==
    \A w \in WS :
        LET once == disconnect(active_connections, w)
            twice == disconnect(once.list, w)
        IN /\ ~once.raised /\ ~twice.raised
           /\ w \notin Range(once.list)
           /\ once.list = SelectSeq(active_connections, LAMBDA x : x # w)
           /\ twice.list = once.list

\* C7 witness: the finally block has called disconnect for a websocket that
\* was never registered (its accept failed), and now another websocket is
\* registered.
C7_Witness ==
    \E w, v \in WS :
        /\ pc[v] = "done" /\ ~accepted[v] /\ disconnectCalls[v] = 1
        /\ v \notin Range(active_connections)
        /\ w \in Range(active_connections)

\* C8: once a session's client has disconnected, its handler eventually
\* returns and its websocket is eventually not in manager.active_connections.
C8_DisconnectReleases ==
    \A w \in WS :
        (client[w] = "closed") ~> (pc[w] = "done" /\ w \notin Range(active_connections))

\* C8 witness: the handler of a client that disconnected while its websocket
\* was registered has returned, and the websocket was removed.
C8_Witness ==
    \E w \in WS :
        /\ client[w] = "closed" /\ accepted[w]
        /\ pc[w] = "done" /\ removals[w] = 1
        /\ w \notin Range(active_connections)

\* C10 (as claimed): while a call of the speech model is in progress, every
\* other handler whose await has completed can take its next step.
C10_InferenceDoesNotBlock ==
    \A h \in HTTP :
        hpc[h] = "whisper" =>
            \A w \in WS :
                pc[w] = "connect" => ENABLED (AcceptOk(w) \/ AcceptFail(w))

C14_SilenceSuppressed ==
    \A w \in WS :
        \A i \in 1..Len(sentLog[w]) :
            sentLog[w][i].kind = "silent" =>
                /\ \A k \in 1..Len(outbox[w]) :
                       outbox[w][k].requestId # sentLog[w][i].requestId
                /\ client[w] = "open" =>
                       (pc[w] \in InLoopPositions /\ w \in Range(active_connections))

\* C15 (as claimed): a message with undecodable audio never reaches the
\* speech model and gets no result of any kind, and the session of the
\* client that sent it and stays connected goes on with the next message.
C15_UndecodableDropped ==
    \A w \in WS :
        \A i \in 1..Len(sentLog[w]) :
            sentLog[w][i].kind = "badaudio" =>
                /\ \A k \in 1..Len(whisperCalls[w]) :
                       whisperCalls[w][k] # sentLog[w][i].samples
                /\ \A k \in 1..Len(outbox[w]) :
                       outbox[w][k].requestId # sentLog[w][i].requestId
                /\ client[w] = "open" => pc[w] \in InLoopPositions

\* C16 (as claimed): a POST /translate with a valid TranslationRequest, the
\* translation model succeeding, ends in the success result, not in HTTP 500.
C16_TranslateSucceeds ==
    \A h \in HTTP :
        (hpath[h] = "/translate" /\ hpc[h] = "done") => hres[h] = "200"

\* C17 (as claimed): a POST /summarize with a text, after start-up, ends in
\* the success result carrying the model's summary, not in HTTP 500.
C17_SummarizeSucceeds ==
    \A h \in HTTP :
        (hpath[h] = "/summarize" /\ hpc[h] = "done") => hres[h] = "200"

\* Lemma: every finished /translate and /summarize request ended in HTTP 500.
TextEndpointsAlwaysFail ==
    \A h \in HTTP :
        (hpath[h] \in {"/translate", "/summarize"} /\ hpc[h] = "done")
            => hres[h] = "500"
====
